---- MODULE Spec2Model ----
(***************************************************************************)
(* A model of vs/server_ping.py: the decoder of the server query answer    *)
(* (parse_server_query_answer), the request frame (build_query_packet)     *)
(* and the query session (query_server with its inner read_packet); of     *)
(* SimpleRateLimiter and VSModDBClient.close in vs/mods_api.py; and of     *)
(* parse_log_file in vs/log_parser.py.                                     *)
(*                                                                         *)
(* Bytes are the integers 0..255, a bytes object is a sequence of them, a  *)
(* Python str is the sequence of its code points.  Offsets are 0-based as  *)
(* in the source.  A raised exception is the record of what the exception  *)
(* object carries: its type and its args (the message).                    *)
(***************************************************************************)
EXTENDS Integers, Sequences, FiniteSets, TLC

VARIABLES
    pc,             \* where the modelled call stands
    scn,            \* the scenario: what the peer sends / the bytes handed in
    conn,           \* the TCP connection of the call: "none", "open", "closed"
    sent,           \* the bytes written to the connection
    rx,             \* the bytes of the peer's stream not read yet
    packet_length,  \* read_packet's local `packet_length`
    payload,        \* query_server's local `payload`
    inner_payload,  \* query_server's local `inner_payload` / the decoder's `data`
    answer,         \* query_server's local `answer`
    outcome,        \* what the call gave its caller: nothing yet, a value, an exception
    log,            \* the steps the call has performed, in order
    parse_offset,   \* the decoder's local `offset` when it returned or raised
    other,          \* a second query_server call in progress, while it is not running
    now,            \* time.time(), in ticks of 0.1 s
    max_calls,      \* SimpleRateLimiter.max_calls
    period,         \* SimpleRateLimiter.period, in ticks
    allowance,      \* SimpleRateLimiter.allowance, in units of 1/period of a call
    last_check,     \* SimpleRateLimiter.last_check
    task,           \* each caller of acquire(): "idle", "sleeping" or "done"
    wake,           \* when each caller's asyncio.sleep(0.1) ends
    grants,         \* the times at which acquire() returned, in order
    session_external,   \* VSModDBClient._session_external
    session,        \* the aiohttp session of the client: "open" or "closed"
    closed_by,      \* who called session.close(), in order: "client", "owner"
    close_calls,    \* how many times VSModDBClient.close() was called
    file,           \* parse_log_file's `lines`: the lines of the log file
    line_no,        \* the position of the loop of parse_log_file in `lines`
    buffer,         \* parse_log_file's local `buffer`
    records,        \* the LogLine records the generator has yielded, in order
    gen,            \* the generator of parse_log_file: its state and its exception
    message,        \* the arguments of a call of parse_message: date, type, raw_message
    parsed          \* what that call gave its caller

\* one query_server call
sessionVars ==
    <<pc, scn, conn, sent, rx, packet_length, payload, inner_payload, answer, outcome,
      log, parse_offset>>

\* one SimpleRateLimiter and its callers
limiterVars == <<now, max_calls, period, allowance, last_check, task, wake, grants>>

\* one VSModDBClient and its session
clientVars == <<session_external, session, closed_by, close_calls>>

\* one call of parse_log_file
parserVars == <<file, line_no, buffer, records, gen>>

\* one call of parse_message
messageVars == <<message, parsed>>

\* what a query_server call never touches
elsewhere == <<other, limiterVars, clientVars, parserVars, messageVars>>

vars == <<sessionVars, elsewhere>>

(***************************************************************************)
(* Bounds of the model.                                                    *)
(***************************************************************************)
MaxStrLen == 2      \* code points per string of a generated answer
MaxPreamble == 2    \* bytes of preamble before the record
MaxTrail == 1       \* bytes the peer sends after the response frame
LongLen == 260      \* bytes of the one long preamble (a frame length above 255)
NumCallers == 3     \* tasks that call acquire() on one limiter
MaxCalls == 2       \* largest max_calls a limiter is constructed with
MaxPeriod == 3      \* longest period of a limiter, in ticks
MaxTime == 5        \* ticks the clock runs for
MaxCloses == 2      \* calls of VSModDBClient.close()
MaxRequests == 2    \* requests made through one client
MaxLines == 3       \* lines of a log file

(***************************************************************************)
(* The tags of the field record.                                           *)
(***************************************************************************)
TagName == 10
TagMotd == 18
TagPlayerCount == 24
TagMaxPlayers == 32
TagGameMode == 42
TagPassword == 48
TagServerVersion == 58

Min(a, b) == IF a < b THEN a ELSE b

Unset == "<unbound>"

\* data[i] of a bytes object, i 0-based and in range
At(data, i) == data[i + 1]

\* data[a:b], Python's slice: clipped to the buffer, never an error
Slice(data, a, b) == SubSeq(data, a + 1, Min(b, Len(data)))

(***************************************************************************)
(* bytes.decode("utf-8"), strict: the well-formed sequences of RFC 3629    *)
(* (no overlong forms, no surrogates, nothing above U+10FFFF).             *)
(***************************************************************************)
IsCont(b) == b >= 128 /\ b <= 191

\* the length of the well-formed sequence that starts b, 0 when there is none
Utf8SeqLen(b) ==
    LET b1 == b[1]
        n == Len(b)
    IN  IF b1 < 128 THEN 1
        ELSE IF b1 >= 194 /\ b1 <= 223
            THEN IF n >= 2 /\ IsCont(b[2]) THEN 2 ELSE 0
        ELSE IF b1 >= 224 /\ b1 <= 239
            THEN IF /\ n >= 3
                    /\ IsCont(b[2])
                    /\ IsCont(b[3])
                    /\ (b1 = 224 => b[2] >= 160)
                    /\ (b1 = 237 => b[2] <= 159)
                 THEN 3 ELSE 0
        ELSE IF b1 >= 240 /\ b1 <= 244
            THEN IF /\ n >= 4
                    /\ IsCont(b[2])
                    /\ IsCont(b[3])
                    /\ IsCont(b[4])
                    /\ (b1 = 240 => b[2] >= 144)
                    /\ (b1 = 244 => b[2] <= 143)
                 THEN 4 ELSE 0
        ELSE 0

\* the code point of the well-formed sequence of n bytes that starts b
Utf8CodePoint(b, n) ==
    IF n = 1 THEN b[1]
    ELSE IF n = 2 THEN (b[1] - 192) * 64 + (b[2] - 128)
    ELSE IF n = 3 THEN (b[1] - 224) * 4096 + (b[2] - 128) * 64 + (b[3] - 128)
    ELSE (b[1] - 240) * 262144 + (b[2] - 128) * 4096 + (b[3] - 128) * 64 + (b[4] - 128)

RECURSIVE Utf8Decode(_)
Utf8Decode(b) ==
    IF b = <<>> THEN [ok |-> TRUE, s |-> <<>>]
    ELSE LET n == Utf8SeqLen(b)
         IN  IF n = 0 THEN [ok |-> FALSE, s |-> <<>>]
             ELSE LET rest == Utf8Decode(SubSeq(b, n + 1, Len(b)))
                  IN  IF rest.ok
                      THEN [ok |-> TRUE, s |-> <<Utf8CodePoint(b, n)>> \o rest.s]
                      ELSE rest

(***************************************************************************)
(* Exceptions.                                                             *)
(***************************************************************************)
NoExc == [type |-> "none", args |-> <<>>]
ValueError(msg) == [type |-> "ValueError", args |-> <<msg>>]
IndexError == [type |-> "IndexError", args |-> <<"index out of range">>]
UnicodeDecodeError == [type |-> "UnicodeDecodeError", args |-> <<"utf-8">>]

\* the decoder's frame: its offset and its locals, exc set once it has raised
Raise(st, e) == [st EXCEPT !.exc = e]
Raised(st) == st.exc # NoExc

(***************************************************************************)
(* The value of a length-delimited field, the tag already consumed: one    *)
(* length byte, the bounds check, the slice and its decoding.              *)
(***************************************************************************)
NotEnoughMsg(field) ==
    CASE field = "name" -> "Not enough data to read Name content"
      [] field = "motd" -> "Not enough data to read MOTD content"
      [] field = "game_mode" -> "Not enough data to read GameMode content"
      [] field = "server_version" -> "Not enough data to read ServerVersion content"

\* variant: the bounds check left out, so the slice is silently clipped
ReadLenStringUnchecked(st, data, field) ==
    IF st.offset >= Len(data) THEN Raise(st, IndexError)
    ELSE LET length == At(data, st.offset)
             offset == st.offset + 1
             d == Utf8Decode(Slice(data, offset, offset + length))
         IN  IF ~d.ok
             THEN Raise([st EXCEPT !.offset = offset], UnicodeDecodeError)
             ELSE [st EXCEPT !.offset = Min(offset + length, Len(data)),
                             ![field] = d.s]

ReadLenString(st, data, field) ==
    IF st.offset >= Len(data) THEN Raise(st, IndexError)
    ELSE LET length == At(data, st.offset)
             offset == st.offset + 1
         IN  IF Len(data) < offset + length
             THEN Raise([st EXCEPT !.offset = offset],
                        ValueError(NotEnoughMsg(field)))
             ELSE LET d == Utf8Decode(Slice(data, offset, offset + length))
                  IN  IF ~d.ok
                      THEN Raise([st EXCEPT !.offset = offset], UnicodeDecodeError)
                      ELSE [st EXCEPT !.offset = offset + length, ![field] = d.s]

\* the value of a one-byte field, the tag already consumed
ReadByte(st, data, field) ==
    IF st.offset >= Len(data) THEN Raise(st, IndexError)
    ELSE [st EXCEPT !.offset = st.offset + 1, ![field] = At(data, st.offset)]

Frame0 ==
    [exc |-> NoExc, offset |-> 0,
     name |-> Unset, motd |-> Unset, player_count |-> Unset, max_players |-> Unset,
     game_mode |-> Unset, password |-> Unset, server_version |-> Unset]

ExpectedMsg(field) ==
    CASE field = "name" -> "Expected field 1 (Name) tag 0x0A at offset 0"
      [] field = "player_count" -> "Expected field 3 (PlayerCount) tag 0x18"
      [] field = "max_players" -> "Expected field 4 (MaxPlayers) tag 0x20"
      [] field = "game_mode" -> "Expected field 5 (GameMode) tag 0x2A"
      [] field = "server_version" -> "Expected field 7 (ServerVersion) tag 0x3A"

\* Field 1: Name
FieldName(st, data) ==
    IF Len(data) = 0 THEN Raise(st, IndexError)
    ELSE IF At(data, st.offset) # TagName
    THEN Raise(st, ValueError(ExpectedMsg("name")))
    ELSE ReadLenString([st EXCEPT !.offset = st.offset + 1], data, "name")

\* variant: the motd treated as a required field
FieldMotdRequired(st, data) ==
    IF st.offset < Len(data) /\ At(data, st.offset) = TagMotd
    THEN ReadLenString([st EXCEPT !.offset = st.offset + 1], data, "motd")
    ELSE Raise(st, ValueError("Expected field 2 (MOTD) tag 0x12"))

\* Field 2: MOTD (optional)
FieldMotd(st, data) ==
    LET st0 == [st EXCEPT !.motd = <<>>]
    IN  IF st.offset < Len(data) /\ At(data, st.offset) = TagMotd
        THEN ReadLenString([st0 EXCEPT !.offset = st.offset + 1], data, "motd")
        ELSE st0

\* Field 3: PlayerCount
FieldPlayerCount(st, data) ==
    IF st.offset < Len(data) /\ At(data, st.offset) = TagPlayerCount
    THEN ReadByte([st EXCEPT !.offset = st.offset + 1], data, "player_count")
    ELSE Raise(st, ValueError(ExpectedMsg("player_count")))

\* a variant that looks ahead: a motd found in the slot of MaxPlayers is passed
\* over and MaxPlayers is read behind it
FieldMaxPlayersLookAhead(st, data) ==
    LET skip == IF st.offset + 1 < Len(data) /\ At(data, st.offset) = TagMotd
                THEN st.offset + 2 + At(data, st.offset + 1)
                ELSE st.offset
    IN  IF skip < Len(data) /\ At(data, skip) = TagMaxPlayers
        THEN ReadByte([st EXCEPT !.offset = skip + 1], data, "max_players")
        ELSE Raise(st, ValueError(ExpectedMsg("max_players")))

\* Field 4: MaxPlayers
FieldMaxPlayers(st, data) ==
    IF st.offset < Len(data) /\ At(data, st.offset) = TagMaxPlayers
    THEN ReadByte([st EXCEPT !.offset = st.offset + 1], data, "max_players")
    ELSE Raise(st, ValueError(ExpectedMsg("max_players")))

\* variant: the game mode treated as an optional field
FieldGameModeOptional(st, data) ==
    IF st.offset < Len(data) /\ At(data, st.offset) = TagGameMode
    THEN ReadLenString([st EXCEPT !.offset = st.offset + 1], data, "game_mode")
    ELSE [st EXCEPT !.game_mode = <<>>]

\* Field 5: GameMode
FieldGameMode(st, data) ==
    IF st.offset < Len(data) /\ At(data, st.offset) = TagGameMode
    THEN ReadLenString([st EXCEPT !.offset = st.offset + 1], data, "game_mode")
    ELSE Raise(st, ValueError(ExpectedMsg("game_mode")))

\* variant: the password flag compared with 1
FieldPasswordEqOne(st, data) ==
    LET st0 == [st EXCEPT !.password = FALSE]
    IN  IF st.offset < Len(data) /\ At(data, st.offset) = TagPassword
        THEN IF st.offset + 1 >= Len(data)
             THEN Raise([st0 EXCEPT !.offset = st.offset + 1], IndexError)
             ELSE [st0 EXCEPT !.offset = st.offset + 2,
                              !.password = (At(data, st.offset + 1) = 1)]
        ELSE st0

\* Field 6: Password (optional)
FieldPassword(st, data) ==
    LET st0 == [st EXCEPT !.password = FALSE]
    IN  IF st.offset < Len(data) /\ At(data, st.offset) = TagPassword
        THEN IF st.offset + 1 >= Len(data)
             THEN Raise([st0 EXCEPT !.offset = st.offset + 1], IndexError)
             ELSE [st0 EXCEPT !.offset = st.offset + 2,
                              !.password = (At(data, st.offset + 1) # 0)]
        ELSE st0

\* variant: the server version treated as an optional field
FieldServerVersionOptional(st, data) ==
    IF st.offset < Len(data) /\ At(data, st.offset) = TagServerVersion
    THEN ReadLenString([st EXCEPT !.offset = st.offset + 1], data,
                       "server_version")
    ELSE [st EXCEPT !.server_version = <<>>]

\* Field 7: ServerVersion
FieldServerVersion(st, data) ==
    IF st.offset < Len(data) /\ At(data, st.offset) = TagServerVersion
    THEN ReadLenString([st EXCEPT !.offset = st.offset + 1], data,
                       "server_version")
    ELSE Raise(st, ValueError(ExpectedMsg("server_version")))

ServerQueryAnswer(st) ==
    [name |-> st.name, motd |-> st.motd, player_count |-> st.player_count,
     max_players |-> st.max_players, game_mode |-> st.game_mode,
     password |-> st.password, server_version |-> st.server_version]

\* the k-th field of the layout, decoded at the frame's offset
Field(k, st, data) ==
    CASE k = 1 -> FieldName(st, data)
      [] k = 2 -> FieldMotd(st, data)
      [] k = 3 -> FieldPlayerCount(st, data)
      [] k = 4 -> FieldMaxPlayers(st, data)
      [] k = 5 -> FieldGameMode(st, data)
      [] k = 6 -> FieldPassword(st, data)
      [] k = 7 -> FieldServerVersion(st, data)

\* the decoder's frame when it returns or raises: the fields in order from the
\* k-th on, nothing after a raise
RECURSIVE DecoderRun(_, _, _)
DecoderRun(st, data, k) ==
    IF k > 7 \/ Raised(st) THEN st ELSE DecoderRun(Field(k, st, data), data, k + 1)

\* what a call gives its caller
Returns(v) == [kind |-> "return", value |-> v]
Raises(e) == [kind |-> "raise", exc |-> e]
Pending == [kind |-> "pending"]
NoAnswer == [kind |-> "pending"]
NoSession == [pc |-> "none"]

\* no limiter was constructed
LimiterUnused ==
    /\ now = 0
    /\ max_calls = 0
    /\ period = 0
    /\ allowance = 0
    /\ last_check = 0
    /\ task = <<>>
    /\ wake = <<>>
    /\ grants = <<>>

\* a generator of parse_log_file: not created, "running" (suspended or not yet
\* started), "exhausted", or "raised" with the exception that ended it
Generator(state, exc) == [state |-> state, exc |-> exc]

\* parse_message was not called on its own
MessageUnused ==
    /\ message = <<>>
    /\ parsed = Pending

\* parse_log_file was not called
ParserUnused ==
    /\ file = <<>>
    /\ line_no = 0
    /\ buffer = <<>>
    /\ records = <<>>
    /\ gen = Generator("none", NoExc)

\* no client was constructed
ClientUnused ==
    /\ session_external = FALSE
    /\ session = "none"
    /\ closed_by = <<>>
    /\ close_calls = 0

\* no query_server call was made
QueryUnused ==
    /\ pc = "none"
    /\ scn = NoSession
    /\ conn = "none"
    /\ sent = <<>>
    /\ rx = <<>>
    /\ packet_length = 0
    /\ payload = <<>>
    /\ inner_payload = <<>>
    /\ answer = NoAnswer
    /\ outcome = Pending
    /\ log = <<>>
    /\ parse_offset = 0
    /\ other = NoSession

parse_server_query_answer(data) ==
    LET st == DecoderRun(Frame0, data, 1)
    IN  IF Raised(st) THEN Raises(st.exc) ELSE Returns(ServerQueryAnswer(st))

(***************************************************************************)
(* The peer's side: how a server puts an answer on the wire, after the     *)
(* layout the decoder assumes.                                             *)
(***************************************************************************)
RECURSIVE Utf8Encode(_)
Utf8Encode(s) ==
    IF s = <<>> THEN <<>>
    ELSE LET c == Head(s)
             b == IF c < 128 THEN <<c>>
                  ELSE IF c < 2048 THEN <<192 + (c \div 64), 128 + (c % 64)>>
                  ELSE IF c < 65536
                      THEN <<224 + (c \div 4096), 128 + ((c \div 64) % 64),
                             128 + (c % 64)>>
                  ELSE <<240 + (c \div 262144), 128 + ((c \div 4096) % 64),
                         128 + ((c \div 64) % 64), 128 + (c % 64)>>
         IN  b \o Utf8Encode(Tail(s))

\* a length-delimited field: tag, one length byte, the UTF-8 bytes
EncString(tag, s) == LET b == Utf8Encode(s) IN <<tag, Len(b)>> \o b

\* a one-byte field: tag, value
EncByte(tag, v) == <<tag, v>>

\* pwByte < 0: the password field is left out; ~hasMotd: the motd field is left out
EncodeRecord(a, hasMotd, pwByte) ==
    EncString(TagName, a.name)
    \o (IF hasMotd THEN EncString(TagMotd, a.motd) ELSE <<>>)
    \o EncByte(TagPlayerCount, a.player_count)
    \o EncByte(TagMaxPlayers, a.max_players)
    \o EncString(TagGameMode, a.game_mode)
    \o (IF pwByte >= 0 THEN EncByte(TagPassword, pwByte) ELSE <<>>)
    \o EncString(TagServerVersion, a.server_version)

\* a fault on the way: the record cut to its first `at` bytes, or the byte at
\* offset `at` replaced
NoFault == [kind |-> "none", at |-> 0, byte |-> 0]
CutAt(k) == [kind |-> "cut", at |-> k, byte |-> 0]
FlipAt(i, b) == [kind |-> "flip", at |-> i, byte |-> b]

\* a peer that sends the fields out of schema order: the motd after the player
\* count (at = 1), or the password before the game mode (at = 2)
MoveAt(n) == [kind |-> "move", at |-> n, byte |-> 0]

EncodeMoved(a, pwByte, n) ==
    LET name == EncString(TagName, a.name)
        motd == EncString(TagMotd, a.motd)
        count == EncByte(TagPlayerCount, a.player_count)
        max == EncByte(TagMaxPlayers, a.max_players)
        mode == EncString(TagGameMode, a.game_mode)
        pw == EncByte(TagPassword, pwByte)
        version == EncString(TagServerVersion, a.server_version)
    IN  IF n = 1
        THEN name \o count \o motd \o max \o mode
                  \o (IF pwByte >= 0 THEN pw ELSE <<>>) \o version
        ELSE name \o motd \o count \o max \o pw \o mode \o version

\* the orders a shape can be sent in: what is moved has to be on the wire
MovesOf(sh) ==
    (IF sh.hasMotd THEN {MoveAt(1)} ELSE {})
    \cup (IF sh.hasMotd /\ sh.pwByte >= 0 THEN {MoveAt(2)} ELSE {})

ApplyFault(rec, f) ==
    IF f.kind = "cut" THEN SubSeq(rec, 1, f.at)
    ELSE IF f.kind = "flip" THEN [rec EXCEPT ![f.at + 1] = f.byte]
    ELSE rec

\* 0x00, and 0x99: no tag of the record and no start of a UTF-8 sequence
FaultBytes == {0, 153}

FaultsOf(rec) ==
    {NoFault}
    \cup {CutAt(k) : k \in 0..(Len(rec) - 1)}
    \cup UNION {{FlipAt(i, b) : b \in FaultBytes \ {rec[i + 1]}} :
                    i \in 0..(Len(rec) - 1)}

(***************************************************************************)
(* The answers a scenario encodes.                                         *)
(***************************************************************************)
\* "H", e-acute (two bytes), line feed (the byte of the Name tag), the euro sign
SampleText == <<72, 233, 10, 8364>>
Texts == {SubSeq(SampleText, 1, Min(n, Len(SampleText))) : n \in 0..MaxStrLen}
CountPairs == {<<0, 0>>, <<4, 16>>, <<255, 32>>}
PwBytes == {-1, 0, 1, 2}
MotdChoices == {[has |-> FALSE, s |-> <<>>]} \cup {[has |-> TRUE, s |-> t] : t \in Texts}

\* an answer, and which of its optional fields are on the wire
Shapes(Names, Motds, Counts, Modes, Pws, Versions) ==
    {[ans |-> [name |-> n, motd |-> m.s, player_count |-> c[1],
               max_players |-> c[2], game_mode |-> g, password |-> (pw > 0),
               server_version |-> v],
      hasMotd |-> m.has, pwByte |-> pw] :
        n \in Names, m \in Motds, c \in Counts, g \in Modes, pw \in Pws,
        v \in Versions}

DecodeShapes == Shapes(Texts, MotdChoices, CountPairs, Texts, PwBytes, Texts)

\* the wire record of a shape, fault-free
RecordOf(sh) == EncodeRecord(sh.ans, sh.hasMotd, sh.pwByte)

\* mode: "direct" (bytes handed to the decoder), or what the peer does with the
\* connection: "refuse" it, "reset" it on the request, "serve" the response.
\* cut >= 0: the peer closes after the first `cut` bytes of its stream.
Scenario(mode, sh, f, pre, trail, cut) ==
    [mode |-> mode, ans |-> sh.ans, hasMotd |-> sh.hasMotd, pwByte |-> sh.pwByte,
     fault |-> f, preamble |-> pre, trail |-> trail, cut |-> cut]

\* the bytes a scenario's record is on arrival
WireRecord(s) ==
    IF s.fault.kind = "move" THEN EncodeMoved(s.ans, s.pwByte, s.fault.at)
    ELSE ApplyFault(EncodeRecord(s.ans, s.hasMotd, s.pwByte), s.fault)

(***************************************************************************)
(* A direct call of parse_server_query_answer(data).                       *)
(***************************************************************************)
InitDecode ==
    /\ \E sh \in DecodeShapes : \E f \in FaultsOf(RecordOf(sh)) \cup MovesOf(sh) :
            scn = Scenario("direct", sh, f, <<>>, <<>>, -1)
    /\ pc = "parse_call"
    /\ inner_payload = WireRecord(scn)
    /\ conn = "none"
    /\ sent = <<>>
    /\ rx = <<>>
    /\ packet_length = 0
    /\ payload = <<>>
    /\ answer = NoAnswer
    /\ outcome = Pending
    /\ log = <<>>
    /\ parse_offset = 0
    /\ other = NoSession
    /\ LimiterUnused
    /\ ClientUnused
    /\ ParserUnused
    /\ MessageUnused

CallParse ==
    /\ pc = "parse_call"
    /\ outcome' = parse_server_query_answer(inner_payload)
    /\ parse_offset' = DecoderRun(Frame0, inner_payload, 1).offset
    /\ pc' = IF outcome'.kind = "raise" THEN "raised" ELSE "returned"
    /\ log' = Append(log, "parse")
    /\ UNCHANGED <<scn, conn, sent, rx, packet_length, payload, inner_payload, answer,
                 elsewhere>>

NextDecode == CallParse

SpecDecode == InitDecode /\ [][NextDecode]_vars

(***************************************************************************)
(* Framing: struct.pack(">I", n), struct.unpack(">I", header), and the     *)
(* request packet.                                                         *)
(***************************************************************************)
\* variants: the little-endian order
Pack32LE(n) ==
    <<n % 256, (n \div 256) % 256, (n \div 65536) % 256, (n \div 16777216) % 256>>

Unpack32LE(h) == h[4] * 16777216 + h[3] * 65536 + h[2] * 256 + h[1]

Pack32BE(n) ==
    <<(n \div 16777216) % 256, (n \div 65536) % 256, (n \div 256) % 256, n % 256>>

Unpack32BE(h) == h[1] * 16777216 + h[2] * 65536 + h[3] * 256 + h[4]

\* length_prefix + payload
Frame(p) == Pack32BE(Len(p)) \o p

\* field key 0x08 then value 0x0F (15)
QueryPayload == <<8, 15>>

build_query_packet == Frame(QueryPayload)

\* variants: the last occurrence (rfind); 0 in place of -1
FindLast(data, b) ==
    IF \E i \in 1..Len(data) : data[i] = b
    THEN (CHOOSE i \in 1..Len(data) :
              data[i] = b /\ \A j \in (i + 1)..Len(data) : data[j] # b) - 1
    ELSE -1

FindOrZero(data, b) ==
    IF \E i \in 1..Len(data) : data[i] = b
    THEN (CHOOSE i \in 1..Len(data) :
              data[i] = b /\ \A j \in 1..(i - 1) : data[j] # b) - 1
    ELSE 0

\* bytes.find(b"\x0a"): the 0-based index of the first occurrence, -1 when none
Find(data, b) ==
    IF \E i \in 1..Len(data) : data[i] = b
    THEN (CHOOSE i \in 1..Len(data) :
              data[i] = b /\ \A j \in 1..(i - 1) : data[j] # b) - 1
    ELSE -1

ConnectionRefusedError == [type |-> "ConnectionRefusedError", args |-> <<"connect">>]
ConnectionResetError == [type |-> "ConnectionResetError", args |-> <<"drain">>]
IncompleteReadError(partial, expected) ==
    [type |-> "IncompleteReadError", args |-> <<partial, expected>>]
NoAnswerTagMsg == "Could not find start of QueryAnswer (0x0a tag)"

(***************************************************************************)
(* The peer of a query: the response payload is a preamble and the record, *)
(* sent as one frame, possibly followed by more bytes, possibly cut short  *)
(* by the peer closing the connection.                                     *)
(***************************************************************************)
ResponsePayload(s) == s.preamble \o WireRecord(s)

PeerStream(s) ==
    LET full == Frame(ResponsePayload(s)) \o s.trail
    IN  IF s.cut >= 0 THEN SubSeq(full, 1, s.cut) ELSE full

PrefixesOf(seq, n) == {SubSeq(seq, 1, Min(k, Len(seq))) : k \in 0..n}

\* preambles free of the Name tag byte, and one that holds it
SamplePreamble == <<1, 2, 24, 58>>
Preambles == PrefixesOf(SamplePreamble, MaxPreamble) \cup {<<TagName, 1>>}
LongPreamble == [i \in 1..LongLen |-> 1]
Trails == PrefixesOf(<<7, 10, 7, 7>>, MaxTrail)

\* "Hub", "Hi", "Survival", "1.20.3"
ExampleName == <<72, 117, 98>>
ExampleMotd == <<72, 105>>
ExampleMode == <<83, 117, 114, 118, 105, 118, 97, 108>>
ExampleVersion == <<49, 46, 50, 48, 46, 51>>
Absent == [has |-> FALSE, s |-> <<>>]
ExampleShapes ==
    Shapes({ExampleName}, {Absent, [has |-> TRUE, s |-> ExampleMotd]}, {<<4, 16>>},
           {ExampleMode}, {-1, 0, 1}, {ExampleVersion})
SmallShapes == Shapes(Texts, {Absent}, {<<0, 10>>}, Texts, {-1}, Texts)
SessionShapes == ExampleShapes \cup SmallShapes

(***************************************************************************)
(* query_server(host, port)                                                *)
(***************************************************************************)
Init ==
    /\ \E sh \in SessionShapes :
          \/ \E f \in FaultsOf(RecordOf(sh)), pre \in Preambles, t \in Trails :
                scn = Scenario("serve", sh, f, pre, t, -1)
          \/ \E pre \in Preambles :
                \E k \in 0..(Len(Frame(pre \o RecordOf(sh))) - 1) :
                    scn = Scenario("serve", sh, NoFault, pre, <<>>, k)
          \/ \E t \in Trails :
                /\ sh \in ExampleShapes
                /\ scn = Scenario("serve", sh, NoFault, LongPreamble, t, -1)
          \/ \E m \in {"refuse", "reset"} :
                scn = Scenario(m, sh, NoFault, <<>>, <<>>, -1)
    /\ pc = "connect"
    /\ conn = "none"
    /\ sent = <<>>
    /\ rx = <<>>
    /\ packet_length = 0
    /\ payload = <<>>
    /\ inner_payload = <<>>
    /\ answer = NoAnswer
    /\ outcome = Pending
    /\ log = <<>>
    /\ parse_offset = 0
    /\ other = NoSession
    /\ LimiterUnused
    /\ ClientUnused
    /\ ParserUnused
    /\ MessageUnused

\* a variant that starts the call over after a failure
PropagateRetry(e) ==
    /\ outcome' = outcome
    /\ pc' = "connect"

\* an exception leaves query_server: nothing after the raising line runs
Propagate(e) ==
    /\ outcome' = Raises(e)
    /\ pc' = "raised"

\* a variant that starts reading the response without sending the request
ConnectThenRead ==
    /\ pc = "connect"
    /\ log' = Append(log, "connect")
    /\ IF scn.mode = "refuse"
       THEN /\ Propagate(ConnectionRefusedError)
            /\ UNCHANGED conn
       ELSE /\ conn' = "open"
            /\ pc' = "read_header"
            /\ UNCHANGED outcome
    /\ UNCHANGED <<scn, sent, rx, packet_length, payload, inner_payload, answer,
                 parse_offset, elsewhere>>

\* line 165: reader, writer = await asyncio.open_connection(host, port)
Connect ==
    /\ pc = "connect"
    /\ log' = Append(log, "connect")
    /\ IF scn.mode = "refuse"
       THEN /\ Propagate(ConnectionRefusedError)
            /\ UNCHANGED conn
       ELSE /\ conn' = "open"
            /\ pc' = "write"
            /\ UNCHANGED outcome
    /\ UNCHANGED <<scn, sent, rx, packet_length, payload, inner_payload, answer,
                 parse_offset, elsewhere>>

\* lines 169-171: the request is written and drained; the peer answers it
Write ==
    /\ pc = "write"
    /\ log' = Append(log, "write")
    /\ sent' = sent \o build_query_packet
    /\ IF scn.mode = "reset"
       THEN /\ Propagate(ConnectionResetError)
            /\ UNCHANGED rx
       ELSE /\ rx' = PeerStream(scn)
            /\ pc' = "read_header"
            /\ UNCHANGED outcome
    /\ UNCHANGED <<scn, conn, packet_length, payload, inner_payload, answer, parse_offset,
                 elsewhere>>

\* a variant in which the calls share one read buffer: the header is taken from
\* the bytes another call has received, when there is one that has some
ReadHeaderShared ==
    /\ pc = "read_header"
    /\ log' = Append(log, "read_header")
    /\ LET buf == IF other.pc # "none" /\ other.rx # <<>> THEN other.rx ELSE rx
       IN  IF Len(buf) < 4
           THEN /\ Propagate(IncompleteReadError(buf, 4))
                /\ rx' = <<>>
                /\ UNCHANGED packet_length
           ELSE /\ packet_length' = Unpack32BE(SubSeq(buf, 1, 4))
                /\ rx' = SubSeq(rx, 5, Len(rx))
                /\ pc' = "read_payload"
                /\ UNCHANGED outcome
    /\ UNCHANGED <<scn, conn, sent, payload, inner_payload, answer, parse_offset, elsewhere>>

\* lines 176-177, in the try block: header = await reader.readexactly(4)
ReadHeader ==
    /\ pc = "read_header"
    /\ log' = Append(log, "read_header")
    /\ IF Len(rx) < 4
       THEN /\ Propagate(IncompleteReadError(rx, 4))
            /\ rx' = <<>>
            /\ UNCHANGED packet_length
       ELSE /\ packet_length' = Unpack32BE(SubSeq(rx, 1, 4))
            /\ rx' = SubSeq(rx, 5, Len(rx))
            /\ pc' = "read_payload"
            /\ UNCHANGED outcome
    /\ UNCHANGED <<scn, conn, sent, payload, inner_payload, answer, parse_offset, elsewhere>>

\* a variant reading with reader.read(packet_length): whatever has arrived
ReadPayloadShort ==
    /\ pc = "read_payload"
    /\ log' = Append(log, "read_payload")
    /\ payload' = SubSeq(rx, 1, Min(packet_length, Len(rx)))
    /\ rx' = SubSeq(rx, Min(packet_length, Len(rx)) + 1, Len(rx))
    /\ pc' = "strip"
    /\ UNCHANGED <<scn, conn, sent, packet_length, inner_payload, answer, outcome,
                 parse_offset, elsewhere>>

\* lines 178-179 and 182: payload = await reader.readexactly(packet_length)
ReadPayload ==
    /\ pc = "read_payload"
    /\ log' = Append(log, "read_payload")
    /\ IF Len(rx) < packet_length
       THEN /\ Propagate(IncompleteReadError(rx, packet_length))
            /\ rx' = <<>>
            /\ UNCHANGED payload
       ELSE /\ payload' = SubSeq(rx, 1, packet_length)
            /\ rx' = SubSeq(rx, packet_length + 1, Len(rx))
            /\ pc' = "strip"
            /\ UNCHANGED outcome
    /\ UNCHANGED <<scn, conn, sent, packet_length, inner_payload, answer, parse_offset,
                 elsewhere>>

\* lines 188-191: the preamble is dropped
StripPreamble ==
    /\ pc = "strip"
    /\ log' = Append(log, "strip")
    /\ LET idx == Find(payload, TagName)
       IN  IF idx < 0
           THEN /\ Propagate(ValueError(NoAnswerTagMsg))
                /\ UNCHANGED inner_payload
           ELSE /\ inner_payload' = Slice(payload, idx, Len(payload))
                /\ pc' = "parse"
                /\ UNCHANGED outcome
    /\ UNCHANGED <<scn, conn, sent, rx, packet_length, payload, answer, parse_offset,
                 elsewhere>>

\* line 195: answer = parse_server_query_answer(inner_payload)
Parse ==
    /\ pc = "parse"
    /\ log' = Append(log, "parse")
    /\ parse_offset' = DecoderRun(Frame0, inner_payload, 1).offset
    /\ LET r == parse_server_query_answer(inner_payload)
       IN  IF r.kind = "raise"
           THEN /\ Propagate(r.exc)
                /\ UNCHANGED answer
           ELSE /\ answer' = r
                /\ pc' = "close"
                /\ UNCHANGED outcome
    /\ UNCHANGED <<scn, conn, sent, rx, packet_length, payload, inner_payload, elsewhere>>

\* lines 201-202: writer.close(); await writer.wait_closed()
Close ==
    /\ pc = "close"
    /\ log' = Append(log, "close")
    /\ conn' = "closed"
    /\ pc' = "return"
    /\ UNCHANGED <<scn, sent, rx, packet_length, payload, inner_payload, answer,
                 outcome, parse_offset, elsewhere>>

\* line 203: return answer
Return ==
    /\ pc = "return"
    /\ log' = Append(log, "return")
    /\ outcome' = Returns(answer.value)
    /\ pc' = "returned"
    /\ UNCHANGED <<scn, conn, sent, rx, packet_length, payload, inner_payload, answer,
                 parse_offset, elsewhere>>

Next ==
    \/ Connect
    \/ Write
    \/ ReadHeader
    \/ ReadPayload
    \/ StripPreamble
    \/ Parse
    \/ Close
    \/ Return

Spec == Init /\ [][Next]_vars

(***************************************************************************)
(* What the properties below read off a scenario: where each field of the  *)
(* fault-free record starts, and what the call has done so far.            *)
(***************************************************************************)
ByteLen(str) == Len(Utf8Encode(str))

OffName(s) == 0
OffMotd(s) == OffName(s) + 2 + ByteLen(s.ans.name)
OffPlayerCount(s) == OffMotd(s) + (IF s.hasMotd THEN 2 + ByteLen(s.ans.motd) ELSE 0)
OffMaxPlayers(s) == OffPlayerCount(s) + 2
OffGameMode(s) == OffMaxPlayers(s) + 2
OffPassword(s) == OffGameMode(s) + 2 + ByteLen(s.ans.game_mode)
OffServerVersion(s) == OffPassword(s) + (IF s.pwByte >= 0 THEN 2 ELSE 0)

RequiredFields == {"name", "player_count", "max_players", "game_mode", "server_version"}
StringFields == {"name", "motd", "game_mode", "server_version"}

TagOf(field) ==
    CASE field = "name" -> TagName
      [] field = "motd" -> TagMotd
      [] field = "player_count" -> TagPlayerCount
      [] field = "max_players" -> TagMaxPlayers
      [] field = "game_mode" -> TagGameMode
      [] field = "password" -> TagPassword
      [] field = "server_version" -> TagServerVersion

OffOf(s, field) ==
    CASE field = "name" -> OffName(s)
      [] field = "motd" -> OffMotd(s)
      [] field = "player_count" -> OffPlayerCount(s)
      [] field = "max_players" -> OffMaxPlayers(s)
      [] field = "game_mode" -> OffGameMode(s)
      [] field = "password" -> OffPassword(s)
      [] field = "server_version" -> OffServerVersion(s)

OnWire(s, field) ==
    CASE field = "motd" -> s.hasMotd
      [] field = "password" -> s.pwByte >= 0
      [] OTHER -> TRUE

Done == pc \in {"returned", "raised"}
Did(step) == \E i \in 1..Len(log) : log[i] = step
Intact(s) == s.fault.kind = "none"

\* the required field at whose tag slot the decoder finds the replaced byte: the
\* field's own tag was replaced, or the tag of the optional field before it
MismatchAt(s, field) ==
    /\ s.fault.kind = "flip"
    /\ \/ s.fault.at = OffOf(s, field)
       \/ field = "player_count" /\ s.hasMotd /\ s.fault.at = OffMotd(s)
       \/ field = "server_version" /\ s.pwByte >= 0 /\ s.fault.at = OffPassword(s)

\* the record ends inside the content of the string field, or the field's length
\* byte was replaced by one larger than what is left
TruncatedIn(s, field) ==
    LET start == OffOf(s, field) + 2
        n == ByteLen(s.ans[field])
    IN  /\ OnWire(s, field)
        /\ \/ s.fault.kind = "cut" /\ s.fault.at >= start /\ s.fault.at < start + n
           \/ /\ s.fault.kind = "flip"
              /\ s.fault.at = start - 1
              /\ s.fault.byte > Len(RecordOf(s)) - start

(***************************************************************************)
(* Properties of parse_server_query_answer, under SpecDecode.              *)
(***************************************************************************)

\* C2: a record with all seven fields present in schema order decodes to an
\* answer whose seven fields equal the encoded values: the strings byte for byte,
\* the counts, and password true iff its byte is nonzero.
C2_AllFieldsDecoded ==
    (Done /\ scn.mode = "direct" /\ Intact(scn) /\ scn.hasMotd /\ scn.pwByte >= 0) =>
        /\ outcome.kind = "return"
        /\ outcome.value.name = scn.ans.name
        /\ outcome.value.motd = scn.ans.motd
        /\ outcome.value.player_count = scn.ans.player_count
        /\ outcome.value.max_players = scn.ans.max_players
        /\ outcome.value.game_mode = scn.ans.game_mode
        /\ outcome.value.password = (scn.pwByte # 0)
        /\ outcome.value.server_version = scn.ans.server_version
        /\ \A f \in StringFields :
              Utf8Encode(outcome.value[f])
                  = SubSeq(inner_payload, OffOf(scn, f) + 3,
                           OffOf(scn, f) + 2 + inner_payload[OffOf(scn, f) + 2])

C2_Witness ==
    /\ pc = "returned"
    /\ scn.mode = "direct" /\ Intact(scn) /\ scn.hasMotd /\ scn.pwByte = 2
    /\ outcome.value.password
    /\ outcome.value.name = <<72, 233>>
    /\ outcome.value.motd = <<72>>
    /\ outcome.value.player_count = 255

\* C3: a record without motd and/or without password_protected at its expected
\* position (the five required fields present in order) decodes, with motd the
\* empty string and/or password false and every other field its encoded value.
C3_OptionalDefaults ==
    (Done /\ scn.mode = "direct" /\ Intact(scn) /\ (~scn.hasMotd \/ scn.pwByte < 0)) =>
        /\ outcome.kind = "return"
        /\ ~scn.hasMotd => outcome.value.motd = <<>>
        /\ scn.hasMotd => outcome.value.motd = scn.ans.motd
        /\ scn.pwByte < 0 => outcome.value.password = FALSE
        /\ scn.pwByte >= 0 => outcome.value.password = (scn.pwByte # 0)
        /\ outcome.value.name = scn.ans.name
        /\ outcome.value.player_count = scn.ans.player_count
        /\ outcome.value.max_players = scn.ans.max_players
        /\ outcome.value.game_mode = scn.ans.game_mode
        /\ outcome.value.server_version = scn.ans.server_version

C3_Witness ==
    /\ pc = "returned"
    /\ scn.mode = "direct" /\ Intact(scn) /\ ~scn.hasMotd /\ scn.pwByte < 0
    /\ outcome.value.motd = <<>>
    /\ ~outcome.value.password
    /\ outcome.value.name = <<72, 233>>
    /\ outcome.value.server_version = <<72>>

\* what an UnexpectedTag(expected, found, offset) failure would carry
Carries(e, expected, found, offset) ==
    /\ {"expected", "found", "offset"} \subseteq DOMAIN e
    /\ e.expected = expected
    /\ e.found = found
    /\ e.offset = offset

C9_TruncatedString ==
    \A f \in StringFields :
        (Done /\ scn.mode = "direct" /\ TruncatedIn(scn, f)) =>
            /\ outcome.kind # "return"
            /\ outcome = Raises(ValueError(NotEnoughMsg(f)))

C9_Witness ==
    /\ pc = "raised"
    /\ scn.mode = "direct"
    /\ scn.fault.kind = "cut"
    /\ TruncatedIn(scn, "motd")
    /\ scn.fault.at = OffMotd(scn) + 3
    /\ outcome.exc = ValueError("Not enough data to read MOTD content")

(***************************************************************************)
(* Properties of query_server, under Spec.                                 *)
(***************************************************************************)
Bytes(seq) == {seq[i] : i \in 1..Len(seq)}
IsPrefixOf(a, b) == Len(a) <= Len(b) /\ SubSeq(b, 1, Len(a)) = a

\* the peer's whole response frame arrives before the peer closes
FrameArrives(s) ==
    /\ s.mode = "serve"
    /\ s.cut < 0 \/ s.cut >= 4 + Len(ResponsePayload(s))

\* the bytes of p from its first Name tag byte on
FromNameTag(p) ==
    LET i == CHOOSE k \in 1..Len(p) : p[k] = TagName /\ \A j \in 1..(k - 1) : p[j] # TagName
    IN  SubSeq(p, i, Len(p))

\* the record starts with the encoding of the answer's fields, in order, the five
\* required ones among them
EncodesPrefix(a, rec) ==
    \E hm \in BOOLEAN, pw \in -1..255 :
        /\ ~hm => a.motd = <<>>
        /\ a.password = (pw > 0)
        /\ IsPrefixOf(EncodeRecord(a, hm, pw), rec)

\* C1: on every path by which query_server returns or raises once the request is
\* out (successful decode, stream closed while the response frame is read,
\* missing Name tag, decode failure), the connection the call opened has been
\* closed before control is back with the caller.
C1_ClosedBeforeControlReturns ==
    (Done /\ Did("read_header")) => conn = "closed"

\* C4: the decoder is handed the payload from the first Name tag byte to the end;
\* so a preamble free of that byte, whatever its length and content, followed by
\* a valid record, gives the answer decoded from the record alone.
C4_PreambleDiscarded ==
    /\ Did("parse") =>
          /\ TagName \in Bytes(payload)
          /\ inner_payload = FromNameTag(payload)
    /\ (FrameArrives(scn) /\ Intact(scn) /\ TagName \notin Bytes(scn.preamble)) =>
          /\ Did("parse") => inner_payload = RecordOf(scn)
          /\ Done => outcome = Returns(scn.ans)

C4_Witness ==
    /\ pc = "returned"
    /\ scn.preamble = <<1, 2>>
    /\ inner_payload = RecordOf(scn)
    /\ outcome.value =
          [name |-> ExampleName, motd |-> <<>>, player_count |-> 4, max_players |-> 16,
           game_mode |-> ExampleMode, password |-> FALSE,
           server_version |-> ExampleVersion]

\* C5: the request frame is the six bytes 00 00 00 02 08 0F (the big-endian
\* length 2, the field-1 tag, the query opcode), and exactly this frame is what
\* query_server writes to the connection.
C5_RequestFrame ==
    /\ ~Did("write") => sent = <<>>
    /\ Did("write") => sent = <<0, 0, 0, 2, 8, 15>>

C5_Witness ==
    /\ pc = "read_header"
    /\ conn = "open"
    /\ sent = <<0, 0, 0, 2, 8, 15>>

\* C6: a payload framed as its 4-byte big-endian length and the payload comes out
\* of the frame reader as exactly the original payload; the bytes after the frame
\* stay in the stream.
C6_FrameRoundTrip ==
    (scn.mode = "serve" /\ scn.cut < 0) =>
        /\ pc # "raised" \/ Did("read_payload")
        /\ Did("read_header") => packet_length = Len(ResponsePayload(scn))
        /\ Did("read_payload") =>
              /\ payload = ResponsePayload(scn)
              /\ rx = scn.trail

C6_Witness ==
    /\ pc = "strip"
    /\ scn.cut < 0
    /\ Len(payload) > 255
    /\ payload = ResponsePayload(scn)
    /\ rx = <<7>>

\* C7: a query that fails at any stage gives its caller a failure and no answer;
\* an answer is returned only when the whole frame arrived, held a Name tag, and
\* all five required fields were decoded from the record that starts there.
C7_NoPartialAnswer ==
    /\ pc = "raised" <=> outcome.kind = "raise"
    /\ pc = "returned" <=> outcome.kind = "return"
    /\ Done \/ outcome = Pending
    /\ outcome.kind = "return" =>
          /\ FrameArrives(scn)
          /\ TagName \in Bytes(ResponsePayload(scn))
          /\ EncodesPrefix(outcome.value, FromNameTag(ResponsePayload(scn)))

C7_Witness ==
    /\ pc = "raised"
    /\ Did("parse")
    /\ scn.fault.kind = "cut"
    /\ TruncatedIn(scn, "server_version")
    /\ outcome = Raises(ValueError("Not enough data to read ServerVersion content"))

\* C10: a response payload without a Name tag byte makes the query fail with the
\* could-not-find-start failure, and the field decoder is never run.
C10_NoNameTag ==
    (FrameArrives(scn) /\ TagName \notin Bytes(ResponsePayload(scn))) =>
        /\ ~Did("parse")
        /\ inner_payload = <<>>
        /\ answer = NoAnswer
        /\ Done => outcome = Raises(ValueError(NoAnswerTagMsg))

C10_Witness ==
    /\ pc = "raised"
    /\ Did("strip")
    /\ Len(payload) > 2
    /\ TagName \notin Bytes(payload)
    /\ outcome = Raises(ValueError("Could not find start of QueryAnswer (0x0a tag)"))

(***************************************************************************)
(* Cancellation. The caller cancels the task running query_server, or wraps *)
(* it in asyncio.wait_for and the deadline expires (which cancels it too):  *)
(* CancelledError is raised at the await the call is suspended in.  It is   *)
(* not an Exception, so the except block of line 197 does not run; like any *)
(* other exception it leaves query_server without reaching lines 201-202.   *)
(* The awaits: open_connection (165), drain (171), the two readexactly      *)
(* (176, 178) and wait_closed (202).                                        *)
(***************************************************************************)
CancelledError == [type |-> "CancelledError", args |-> <<>>]
TimeoutError == [type |-> "TimeoutError", args |-> <<>>]

AwaitPoints == {"connect", "write", "read_header", "read_payload", "close"}

Cancel ==
    /\ pc \in AwaitPoints
    /\ log' = Append(log, "cancel")
    /\ \E e \in {CancelledError, TimeoutError} : Propagate(e)
    \* suspended in drain, the request was handed to the transport (line 169);
    \* suspended in wait_closed, writer.close() was called (line 201); suspended
    \* in open_connection, asyncio closes the socket it was connecting
    /\ sent' = IF pc = "write" THEN sent \o build_query_packet ELSE sent
    /\ conn' = IF pc = "close" THEN "closed" ELSE conn
    /\ UNCHANGED <<scn, rx, packet_length, payload, inner_payload, answer, parse_offset,
                 elsewhere>>

NextCancel ==
    \/ Next
    \/ Cancel

SpecCancel == Init /\ [][NextCancel]_vars

(***************************************************************************)
(* Two query_server calls on one event loop.  Each call is a coroutine     *)
(* with its own locals (reader, writer, header, payload, idx, answer); the *)
(* module holds no state but its logger.  One call runs at a time; `other` *)
(* keeps the frame of the suspended one.  The event loop switches tasks at *)
(* awaits; the model lets it switch between any two steps.                 *)
(***************************************************************************)
PairShapes ==
    Shapes({ExampleName}, {[has |-> TRUE, s |-> ExampleMotd]}, {<<4, 16>>},
           {ExampleMode}, {1}, {ExampleVersion})
    \cup Shapes({<<72>>}, {Absent}, {<<0, 10>>}, {<<>>}, {-1}, {<<>>})

\* what the two servers do: answer, answer with a preamble and more bytes behind
\* the frame, close inside the header or the payload, send a record cut short or
\* one without its Name tag, refuse the connection, reset it
PairScenarios ==
    UNION {{Scenario("serve", sh, NoFault, <<>>, <<>>, -1),
            Scenario("serve", sh, NoFault, <<1, 2>>, <<7>>, -1),
            Scenario("serve", sh, NoFault, <<>>, <<>>, 2),
            Scenario("serve", sh, NoFault, <<>>, <<>>, 6),
            Scenario("serve", sh, CutAt(3), <<>>, <<>>, -1),
            Scenario("serve", sh, FlipAt(0, 0), <<1>>, <<>>, -1)} : sh \in PairShapes}
    \cup {Scenario(m, sh, NoFault, <<>>, <<>>, -1) :
            m \in {"refuse", "reset"}, sh \in PairShapes}

\* the frame of a call that has not run yet
FreshSession(id, s) ==
    [id |-> id, pc |-> "connect", scn |-> s, conn |-> "none", sent |-> <<>>,
     rx |-> <<>>, packet_length |-> 0, payload |-> <<>>, inner_payload |-> <<>>,
     answer |-> NoAnswer, outcome |-> Pending, log |-> <<>>, parse_offset |-> 0]

OtherId(id) == IF id = "A" THEN "B" ELSE "A"

InitPair ==
    /\ \E s \in PairScenarios :
          /\ scn = s
          /\ \E t \in PairScenarios : other = FreshSession("B", t)
    /\ pc = "connect"
    /\ conn = "none"
    /\ sent = <<>>
    /\ rx = <<>>
    /\ packet_length = 0
    /\ payload = <<>>
    /\ inner_payload = <<>>
    /\ answer = NoAnswer
    /\ outcome = Pending
    /\ log = <<>>
    /\ parse_offset = 0
    /\ LimiterUnused
    /\ ClientUnused
    /\ ParserUnused
    /\ MessageUnused

\* the running call is suspended and the other one resumed
Swap ==
    /\ other.pc # "none"
    /\ other' = [id |-> OtherId(other.id), pc |-> pc, scn |-> scn, conn |-> conn,
                 sent |-> sent, rx |-> rx, packet_length |-> packet_length,
                 payload |-> payload, inner_payload |-> inner_payload,
                 answer |-> answer, outcome |-> outcome, log |-> log,
                 parse_offset |-> parse_offset]
    /\ pc' = other.pc
    /\ scn' = other.scn
    /\ conn' = other.conn
    /\ sent' = other.sent
    /\ rx' = other.rx
    /\ packet_length' = other.packet_length
    /\ payload' = other.payload
    /\ inner_payload' = other.inner_payload
    /\ answer' = other.answer
    /\ outcome' = other.outcome
    /\ log' = other.log
    /\ parse_offset' = other.parse_offset
    /\ UNCHANGED <<limiterVars, clientVars, parserVars, messageVars>>

NextPair ==
    \/ Next
    \/ Swap

SpecPair == InitPair /\ [][NextPair]_vars

(***************************************************************************)
(* Properties of the steps of one query_server call, under Spec.           *)
(***************************************************************************)

\* how many times the call performed a step
Count(step) == Cardinality({i \in 1..Len(log) : log[i] = step})

Steps ==
    {"connect", "write", "read_header", "read_payload", "strip", "parse", "close",
     "return"}

\* C11: one call opens at most one connection, writes exactly one request frame
\* on it and reads at most one response frame from it; after a failure nothing
\* is retried: no further step runs, no second connection, no second request.
C11_SingleExchange ==
    /\ \A step \in Steps : Count(step) <= 1
    /\ conn = "none" => sent = <<>>
    /\ (conn # "none" /\ pc # "write") => sent = build_query_packet
    /\ Did("read_payload") => Did("read_header")
    /\ pc = "raised" => ~ENABLED Next

C11_Witness ==
    /\ pc = "raised"
    /\ log = <<"connect", "write", "read_header", "read_payload">>
    /\ conn = "open"
    /\ sent = build_query_packet
    /\ outcome.exc.type = "IncompleteReadError"

\* the peer closes the connection before the whole frame was sent
ClosesInHeader(s) == s.mode = "serve" /\ s.cut >= 0 /\ s.cut < 4
ClosesInPayload(s) ==
    s.mode = "serve" /\ s.cut >= 4 /\ s.cut < 4 + Len(ResponsePayload(s))

\* C17: the frame is read exactly: when the peer closes after fewer than 4 length
\* bytes, or after fewer than the declared L payload bytes, the query fails; a
\* short payload reaches neither the preamble skip nor the field decoder, which
\* only ever see a payload of exactly L bytes.
C17_ReadExactly ==
    /\ (ClosesInHeader(scn) /\ Did("read_header")) =>
          /\ outcome = Raises(IncompleteReadError(PeerStream(scn), 4))
          /\ ~Did("read_payload")
    /\ (ClosesInPayload(scn) /\ Did("read_payload")) =>
          /\ packet_length = Len(ResponsePayload(scn))
          /\ outcome = Raises(IncompleteReadError(
                          SubSeq(PeerStream(scn), 5, scn.cut), packet_length))
    /\ (ClosesInHeader(scn) \/ ClosesInPayload(scn)) =>
          /\ ~Did("strip") /\ ~Did("parse")
          /\ payload = <<>> /\ inner_payload = <<>>
          /\ outcome.kind # "return"
    /\ (Did("strip") \/ Did("parse")) =>
          /\ Len(payload) = packet_length
          /\ payload = ResponsePayload(scn)
    /\ pc \in {"strip", "parse"} => Len(payload) = packet_length

C17_Witness ==
    /\ pc = "raised"
    /\ ClosesInPayload(scn)
    /\ scn.cut > 5
    /\ log = <<"connect", "write", "read_header", "read_payload">>
    /\ packet_length > Len(outcome.exc.args[1])
    /\ payload = <<>>

\* the steps of a query that succeeds, in the order of the lines of query_server
StepOrder ==
    <<"connect", "write", "read_header", "read_payload", "strip", "parse", "close",
      "return">>

\* C18: the steps of a query occur strictly in the order connect, write and
\* flush, read frame length, read frame payload, strip preamble, decode, close:
\* nothing is read before the request was written and flushed, decoding starts
\* only after the whole frame was read, and an answer is returned only after a
\* whole frame was read and decoded.
C18_StepOrder ==
    /\ IsPrefixOf(log, StepOrder)
    /\ Did("read_header") =>
          /\ sent = build_query_packet
          /\ scn.mode = "serve"
    /\ ~Did("write") => rx = <<>> /\ packet_length = 0 /\ payload = <<>>
    /\ Did("parse") =>
          /\ FrameArrives(scn)
          /\ payload = ResponsePayload(scn)
          /\ inner_payload = FromNameTag(payload)
    /\ outcome.kind = "return" =>
          /\ log = StepOrder
          /\ FrameArrives(scn)
          /\ answer = parse_server_query_answer(FromNameTag(ResponsePayload(scn)))
          /\ outcome = answer
          /\ conn = "closed"

C18_Witness ==
    /\ pc = "returned"
    /\ log = StepOrder
    /\ scn.preamble # <<>>
    /\ scn.trail # <<>>
    /\ outcome.value.name # ""

(***************************************************************************)
(* Properties of the decoder at the end of its buffer, under SpecDecode.   *)
(***************************************************************************)
AllFields ==
    {"name", "motd", "player_count", "max_players", "game_mode", "password",
     "server_version"}

\* the buffer ends right after a field's tag byte
EndsAfterTag(s) ==
    /\ s.fault.kind = "cut"
    /\ \E f \in AllFields : OnWire(s, f) /\ s.fault.at = OffOf(s, f) + 1

\* the buffer ends between two fields, where the tag of a required field is
\* looked for (after the slot of an optional field was passed over)
EndsAtTagSlot(s) ==
    /\ s.fault.kind = "cut"
    /\ \E f \in AllFields : OnWire(s, f) /\ s.fault.at = OffOf(s, f)

\* the failure of a read that found less data than it needed
Truncated(e) == \E f \in StringFields : e = ValueError(NotEnoughMsg(f))

\* C16: a read that would run past the end of the buffer yields a Truncated
\* failure: when the buffer ends right after a field's tag byte, or where the tag
\* of a required field is expected, decoding fails with Truncated, neither with a
\* tag-mismatch failure nor with an unclassified fault, and the read offset never
\* exceeds the length of the buffer.
C16_PastEndIsTruncated ==
    (Done /\ scn.mode = "direct" /\ (EndsAfterTag(scn) \/ EndsAtTagSlot(scn))) =>
        /\ outcome.kind = "raise"
        /\ Truncated(outcome.exc)
        /\ parse_offset <= Len(inner_payload)

\* the decoder's frame at a given offset of the buffer, with nothing raised
FrameAt(o) == [Frame0 EXCEPT !.offset = o]

\* C19: decoding is strictly positional: when the byte at the slot of an optional
\* field is not its tag, no byte is consumed for it and the next field is looked
\* for at the same offset; the decoder never looks further ahead, so a record with
\* the motd after the player count, or the password before the game mode, is
\* rejected at the next required field.
C19_PositionalDecoding ==
    /\ \A o \in 0..Len(inner_payload) :
          /\ (o = Len(inner_payload) \/ At(inner_payload, o) # TagMotd) =>
                /\ FieldMotd(FrameAt(o), inner_payload).offset = o
                /\ ~Raised(FieldMotd(FrameAt(o), inner_payload))
          /\ (o = Len(inner_payload) \/ At(inner_payload, o) # TagPassword) =>
                /\ FieldPassword(FrameAt(o), inner_payload).offset = o
                /\ ~Raised(FieldPassword(FrameAt(o), inner_payload))
    /\ (Done /\ scn.fault = MoveAt(1)) =>
          /\ outcome = Raises(ValueError(ExpectedMsg("max_players")))
          /\ parse_offset = ByteLen(scn.ans.name) + 4
          /\ At(inner_payload, parse_offset) = TagMotd
    /\ (Done /\ scn.fault = MoveAt(2)) =>
          /\ outcome = Raises(ValueError(ExpectedMsg("game_mode")))
          /\ parse_offset = OffGameMode(scn)
          /\ At(inner_payload, parse_offset) = TagPassword

C19_Witness ==
    /\ pc = "raised"
    /\ scn.fault = MoveAt(1)
    /\ scn.ans.motd # <<>>
    /\ scn.ans.name # <<>>
    /\ outcome = Raises(ValueError("Expected field 4 (MaxPlayers) tag 0x20"))

(***************************************************************************)
(* Properties of a cancelled query, under SpecCancel.                      *)
(***************************************************************************)
Cancelled == pc = "raised" /\ outcome.exc \in {CancelledError, TimeoutError}

\* the step before a step of StepOrder
PreviousStep(step) ==
    CASE step = "write" -> "connect"
      [] step = "read_header" -> "write"
      [] step = "read_payload" -> "read_header"
      [] step = "close" -> "parse"

\* where the call was suspended when it was cancelled
CancelledIn(step) ==
    /\ Cancelled
    /\ Len(log) > 0
    /\ log[Len(log)] = "cancel"
    /\ IF step = "connect" THEN Len(log) = 1
       ELSE Len(log) > 1 /\ log[Len(log) - 1] = PreviousStep(step)

\* C12: a query cancelled (or whose deadline expires) while it is connecting or
\* blocked in the read of the frame length or of the frame payload has its socket
\* closed and ends with a Cancelled/Timeout outcome; no answer built from
\* partially received data is returned.
C12_CancelClosesSocket ==
    (\E step \in {"connect", "read_header", "read_payload"} : CancelledIn(step)) =>
        /\ conn \in {"none", "closed"}
        /\ outcome.kind = "raise"
        /\ answer = NoAnswer

(***************************************************************************)
(* Properties of two concurrent queries, under SpecPair.                   *)
(***************************************************************************)

\* what query_server gives its caller when it runs alone against a server
SoloOutcome(s) ==
    IF s.mode = "refuse" THEN Raises(ConnectionRefusedError)
    ELSE IF s.mode = "reset" THEN Raises(ConnectionResetError)
    ELSE LET stream == PeerStream(s)
             length == Unpack32BE(SubSeq(stream, 1, 4))
             rest == SubSeq(stream, 5, Len(stream))
             p == SubSeq(rest, 1, length)
         IN  IF Len(stream) < 4 THEN Raises(IncompleteReadError(stream, 4))
             ELSE IF Len(rest) < length THEN Raises(IncompleteReadError(rest, length))
             ELSE IF Find(p, TagName) < 0 THEN Raises(ValueError(NoAnswerTagMsg))
             ELSE parse_server_query_answer(Slice(p, Find(p, TagName), Len(p)))

\* C13: concurrent query_server calls are independent: under every interleaving
\* of their steps each call's outcome, answer or failure, is the one it has when
\* run alone against the same server, no socket, buffer or offset being shared.
C13_Independent ==
    /\ other.pc # "none"
    /\ IF Done THEN outcome = SoloOutcome(scn) ELSE outcome = Pending
    /\ IF other.pc \in {"returned", "raised"}
       THEN other.outcome = SoloOutcome(other.scn)
       ELSE other.outcome = Pending

C13_Witness ==
    /\ pc = "returned"
    /\ outcome = SoloOutcome(scn)
    /\ other.id = "A"
    /\ other.pc = "read_payload"
    /\ other.scn # scn
    /\ other.scn.cut = 6

(***************************************************************************)
(* SimpleRateLimiter (vs/mods_api.py).  Time is counted in ticks of 0.1 s, *)
(* the length of the limiter's sleep, and the period is a whole number of  *)
(* ticks.  The allowance is kept multiplied by the period, so that the     *)
(* refill  time_passed * (max_calls / period)  is the whole number         *)
(* time_passed * max_calls,  the cap max_calls is  max_calls * period  and *)
(* one call (1.0) is  period.                                              *)
(***************************************************************************)
SleepTicks == 1
Callers == 1..NumCallers
OneCall == period

\* lines 39-47: __init__, and the tasks that will call acquire()
InitLimiter ==
    /\ now = 0
    /\ max_calls \in 1..MaxCalls
    /\ period \in 1..MaxPeriod
    /\ allowance = max_calls * period
    /\ last_check = now
    /\ task = [t \in Callers |-> "idle"]
    /\ wake = [t \in Callers |-> 0]
    /\ grants = <<>>
    /\ QueryUnused
    /\ ClientUnused
    /\ ParserUnused
    /\ MessageUnused

\* lines 54-60: the allowance after the refill, capped
Refilled == Min(allowance + (now - last_check) * max_calls, max_calls * period)

\* a pass of the loop that takes a call from the allowance it finds, without
\* the test of line 61
AcquireUntested(t) ==
    /\ \/ task[t] = "idle"
       \/ task[t] = "sleeping" /\ now >= wake[t]
    /\ last_check' = now
    /\ allowance' = Refilled - OneCall
    /\ task' = [task EXCEPT ![t] = "done"]
    /\ grants' = Append(grants, now)
    /\ UNCHANGED <<now, max_calls, period, wake, sessionVars, other, clientVars,
                   parserVars, messageVars>>

\* lines 53-66: one pass of the loop of acquire(), from the call or from the end
\* of a sleep up to the next await or the return; no await inside, so no other
\* task runs in between
Acquire(t) ==
    /\ \/ task[t] = "idle"
       \/ task[t] = "sleeping" /\ now >= wake[t]
    /\ last_check' = now
    /\ IF Refilled < OneCall
       THEN /\ allowance' = Refilled
            /\ task' = [task EXCEPT ![t] = "sleeping"]
            /\ wake' = [wake EXCEPT ![t] = now + SleepTicks]
            /\ UNCHANGED grants
       ELSE /\ allowance' = Refilled - OneCall
            /\ task' = [task EXCEPT ![t] = "done"]
            /\ grants' = Append(grants, now)
            /\ UNCHANGED wake
    /\ UNCHANGED <<now, max_calls, period, sessionVars, other, clientVars, parserVars, messageVars>>

\* time passes
Tick ==
    /\ now < MaxTime
    /\ now' = now + 1
    /\ UNCHANGED <<max_calls, period, allowance, last_check, task, wake, grants,
                   sessionVars, other, clientVars, parserVars, messageVars>>

NextLimiter ==
    \/ \E t \in Callers : Acquire(t)
    \/ Tick

SpecLimiter == InitLimiter /\ [][NextLimiter]_vars

(***************************************************************************)
(* The limiter over unbounded time, with callers that come back: a task    *)
(* whose acquire() returned makes its request and may call acquire()       *)
(* again (lines 216-238, once per request).  Times are kept relative to    *)
(* the present, which stays at 0: acquire() reads only differences of      *)
(* times.  What lies a whole period back is forgotten, as a time_passed of *)
(* one period or more refills the bucket to its cap whatever it held.      *)
(***************************************************************************)

\* a task that the event loop will run without waiting: its acquire() was just
\* called, or its sleep is over
Ready(t) ==
    \/ task[t] = "idle"
    \/ task[t] = "sleeping" /\ now >= wake[t]

\* time passes by one tick, once the event loop has run every task that was
\* ready and waits for the next timer
Elapse ==
    /\ \A t \in Callers : ~Ready(t)
    /\ last_check' = IF last_check - 1 < now - period THEN now - period
                     ELSE last_check - 1
    /\ wake' = [t \in Callers |-> IF wake[t] > now THEN wake[t] - 1 ELSE wake[t]]
    /\ grants' = SelectSeq([i \in 1..Len(grants) |-> grants[i] - 1],
                           LAMBDA g : g > now - period)
    /\ UNCHANGED <<now, max_calls, period, allowance, task,
                   sessionVars, other, clientVars, parserVars, messageVars>>

\* lines 216-238: the caller's request is done and it makes the next one, which
\* starts with acquire()
CallAgain(t) ==
    /\ task[t] = "done"
    /\ task' = [task EXCEPT ![t] = "idle"]
    /\ UNCHANGED <<now, max_calls, period, allowance, last_check, wake, grants,
                   sessionVars, other, clientVars, parserVars, messageVars>>

NextLimiterFair ==
    \/ \E t \in Callers : Acquire(t)
    \/ \E t \in Callers : CallAgain(t)
    \/ Elapse

\* the event loop runs every task that is ready (a first pass of acquire(), or
\* one whose sleep is over), and time keeps advancing
SpecLimiterFair ==
    /\ InitLimiter
    /\ [][NextLimiterFair]_vars
    /\ \A t \in Callers : WF_vars(Acquire(t))
    /\ WF_vars(Elapse)

(***************************************************************************)
(* Properties of SimpleRateLimiter, under SpecLimiter.                     *)
(***************************************************************************)

\* the acquire() calls that returned in the window of one period starting at t
GrantsIn(t) == {i \in 1..Len(grants) : t <= grants[i] /\ grants[i] < t + period}

\* C14: SimpleRateLimiter(max_calls, period) lets at most max_calls acquire()
\* calls complete within any time window of length period, for every max_calls
\* and every interleaving of callers, a burst after construction included.
C14_AtMostMaxCallsPerWindow ==
    \A t \in 0..now : Cardinality(GrantsIn(t)) <= max_calls

\* what the bucket held at construction plus what time has refilled since,
\* before the cap takes anything away
Supplied == max_calls * period + now * max_calls

\* C22: with max_calls >= 1 and any interleaving of concurrent acquire() calls,
\* the allowance stays between 0 and max_calls; every acquire() that returns
\* found, after the refill, an allowance of at least one call and left it
\* smaller by exactly one call; and the calls that returned never took more
\* than was supplied (no call is handed out twice).
C22_OneCallPerReturn ==
    /\ [](/\ 0 <= allowance
          /\ allowance <= max_calls * period
          /\ allowance + Len(grants) * OneCall <= Supplied)
    /\ [][\A t \in Callers :
             task[t] # "done" /\ task'[t] = "done" =>
                /\ Refilled >= OneCall
                /\ allowance' = Refilled - OneCall
                /\ Len(grants') = Len(grants) + 1]_vars

\* two calls returned at the same time, leaving less than one call in the
\* bucket, and a third caller found it so and sleeps
C22_Witness ==
    /\ Len(grants) >= 2
    /\ grants[1] = grants[2]
    /\ allowance < OneCall
    /\ \E t \in Callers : task[t] = "sleeping" /\ wake[t] > grants[2]

\* C23: while time keeps advancing and max_calls >= 1, every call of acquire()
\* returns in the end, whatever the other callers of the same limiter do.
C23_EveryCallReturns ==
    \A t \in Callers : (task[t] \in {"idle", "sleeping"}) ~> (task[t] = "done")

(***************************************************************************)
(* VSModDBClient (vs/mods_api.py): its session, its rate limiter, close()  *)
(* and the requests of _get_html and _get_json, each a caller of the       *)
(* limiter's acquire() followed by session.get.  The owner of a session    *)
(* that was passed in may close it.                                        *)
(***************************************************************************)

\* the tasks that make a request
Requesters == 1..MaxRequests

\* lines 193-206: __init__(session, max_calls_per_sec), the period a whole number
\* of ticks
InitClient ==
    /\ session_external \in BOOLEAN
    /\ session = "open"
    /\ closed_by = <<>>
    /\ close_calls = 0
    /\ now = 0
    /\ max_calls = 1
    /\ period \in 1..MaxPeriod
    /\ allowance = max_calls * period
    /\ last_check = now
    /\ task = [t \in Requesters |-> "idle"]
    /\ wake = [t \in Requesters |-> 0]
    /\ grants = <<>>
    /\ QueryUnused
    /\ ParserUnused
    /\ MessageUnused

\* a variant that closes whatever session the client holds
CloseAnySession ==
    /\ close_calls < MaxCloses
    /\ close_calls' = close_calls + 1
    /\ IF session # "closed"
       THEN /\ session' = "closed"
            /\ closed_by' = Append(closed_by, "client")
       ELSE UNCHANGED <<session, closed_by>>
    /\ UNCHANGED <<session_external, limiterVars, sessionVars, other, parserVars, messageVars>>

\* lines 208-211: close()
close ==
    /\ close_calls < MaxCloses
    /\ close_calls' = close_calls + 1
    /\ IF ~session_external /\ session # "closed"
       THEN /\ session' = "closed"
            /\ closed_by' = Append(closed_by, "client")
       ELSE UNCHANGED <<session, closed_by>>
    /\ UNCHANGED <<session_external, limiterVars, sessionVars, other, parserVars, messageVars>>

\* lines 221 and 233, after acquire() returned: session.get succeeds, fails with
\* a ClientError, or raises RuntimeError("Session is closed")
Get(t) ==
    /\ task[t] = "done"
    /\ \E r \in (IF session = "closed" THEN {"RuntimeError"} ELSE {"fetched", "ClientError"}) :
          task' = [task EXCEPT ![t] = r]
    /\ UNCHANGED <<now, max_calls, period, allowance, last_check, wake, grants,
                   clientVars, sessionVars, other, parserVars, messageVars>>

\* the code that passed its session to the client closes it
OwnerCloses ==
    /\ session_external
    /\ session = "open"
    /\ session' = "closed"
    /\ closed_by' = Append(closed_by, "owner")
    /\ UNCHANGED <<session_external, close_calls, limiterVars, sessionVars, other,
                   parserVars, messageVars>>

NextClient ==
    \/ \E t \in Requesters : Acquire(t)
    \/ \E t \in Requesters : Get(t)
    \/ Tick
    \/ close
    \/ OwnerCloses

SpecClient == InitClient /\ [][NextClient]_vars

(***************************************************************************)
(* Properties of VSModDBClient.close, under SpecClient.                    *)
(***************************************************************************)

\* C15: close() closes the session if and only if the client created it: after
\* any requests and close() calls a session that was passed in has never been
\* closed by the client, and one the client created is closed by the first
\* close(), further close() calls having no effect.
C15_ClosesOwnSessionOnly ==
    /\ session \in {"open", "closed"}
    /\ session_external =>
          /\ \A i \in 1..Len(closed_by) : closed_by[i] = "owner"
          /\ session = (IF closed_by = <<>> THEN "open" ELSE "closed")
    /\ ~session_external =>
          /\ close_calls = 0 => session = "open" /\ closed_by = <<>>
          /\ close_calls > 0 => session = "closed" /\ closed_by = <<"client">>

C15_Witness ==
    /\ session_external
    /\ close_calls = 2
    /\ session = "open"
    /\ \E t \in Requesters : task[t] = "fetched"
    /\ \E t \in Requesters : task[t] = "sleeping"

(***************************************************************************)
(* parse_log_file and parse_log_line (vs/log_parser.py).  A line of text   *)
(* is a sequence of pieces: the timestamp "d.m.Y H:M:S [type] " that       *)
(* LINE_RE matches at the start of a line (its day in a, its month in b;   *)
(* year and time of day are those of the example, 2025 21:57:21), the      *)
(* text of the line, and the line feed.  The text is plain, or one that    *)
(* the pattern of PlayerPlacement finds, "Placing <player> at <x> <y> <z>" *)
(* (the number of dots in x in a: [\d.]+ takes any).                       *)
(***************************************************************************)
Piece(k, a, b) == [k |-> k, a |-> a, b |-> b]
LF == Piece("\n", 0, 0)
Plain == Piece("plain", 0, 0)
Placing(dots) == Piece("placing", dots, 0)
Stamp(day, month) == Piece("stamp", day, month)
ExampleType == "Server Notification"

\* LINE_RE.match(line)
LineMatches(line) == Len(line) > 0 /\ line[1].k = "stamp"

\* m.group(4) of LINE_RE: the rest of the line, the line feed left out
MessageOf(line) == SelectSeq(line, LAMBDA p : p.k \notin {"stamp", "\n"})

\* datetime.strptime(..., '%d.%m.%Y %H:%M:%S') accepts a day of the calendar
DaysIn(month) ==
    IF month = 2 THEN 28 ELSE IF month \in {4, 6, 9, 11} THEN 30 ELSE 31

StrptimeOk(stamp) ==
    /\ stamp.b \in 1..12
    /\ stamp.a \in 1..DaysIn(stamp.b)

\* ''.join(strs) and '\n'.join(strs)
RECURSIVE Concat(_)
Concat(strs) == IF strs = <<>> THEN <<>> ELSE Head(strs) \o Concat(Tail(strs))

RECURSIVE JoinLF(_)
JoinLF(strs) ==
    IF strs = <<>> THEN <<>>
    ELSE IF Len(strs) = 1 THEN strs[1]
    ELSE strs[1] \o <<LF>> \o JoinLF(Tail(strs))

\* the texts the other registered patterns find: "<player> [<ip>]:<port> joins.",
\* "Player <player> left.", "[playercorpse] Created <player>'s corpse at ...",
\* "[playercorpse] <player>'s corpse at x=.., y=<y>, .. was destroyed, id .." (the
\* number of dots in y in a), "<n> | <player>: <message>", "Server overloaded. A
\* tick took <n>ms to complete.", "Handling Console Command <command>" and
\* "Exception: <message>"
Joins == Piece("joins", 0, 0)
Left == Piece("left", 0, 0)
CorpseCreated == Piece("corpse created", 0, 0)
CorpseDestroyed(dots) == Piece("corpse destroyed", dots, 0)
Chat == Piece("chat", 0, 0)
Overloaded == Piece("overloaded", 0, 0)
ConsoleCommandText == Piece("console command", 0, 0)
ExceptionText == Piece("exception", 0, 0)

Pattern(pattern, parser) == [pattern |-> pattern, parser |-> parser]

\* line 71 and the PATTERNS.append calls of lines 116, 136, 154, 173, 196, 218,
\* 240, 254, 271, in that order
PATTERNS ==
    <<Pattern("joins", "PlayerJoin"),
      Pattern("placing", "PlayerPlacement"),
      Pattern("left", "PlayerLeave"),
      Pattern("corpse created", "PlayerCorpse"),
      Pattern("corpse destroyed", "PlayerCorpseDestroyed"),
      Pattern("chat", "ChatMessage"),
      Pattern("overloaded", "ServerOverloaded"),
      Pattern("console command", "ConsoleCommand"),
      Pattern("exception", "Exception")>>

\* how many line feeds follow position i of a text
LineFeedsAfter(raw, i) == Cardinality({j \in (i + 1)..Len(raw) : raw[j] = LF})

\* whether a pattern matches at position i: its text is there; the pattern of
\* Exception also needs the end of that line and one more whole line behind it
MatchesAt(pattern, raw, i) ==
    /\ raw[i].k = pattern
    /\ pattern = "exception" => LineFeedsAfter(raw, i) >= 2

\* pattern.search(raw_message): the leftmost position it matches at, 0 for None
Search(pattern, raw) ==
    IF \E i \in 1..Len(raw) : MatchesAt(pattern, raw, i)
    THEN CHOOSE i \in 1..Len(raw) :
            /\ MatchesAt(pattern, raw, i)
            /\ \A j \in 1..(i - 1) : ~MatchesAt(pattern, raw, j)
    ELSE 0

\* pattern.parser(m, raw_message): the dataclass built from the groups; float()
\* of a group matched by [\d.]+ fails on more than one dot
Parser(p, found) ==
    IF p.parser \in {"PlayerPlacement", "PlayerCorpseDestroyed"} /\ found.a > 1
    THEN Raises(ValueError("could not convert string to float"))
    ELSE Returns(Piece(p.parser, found.a, 0))

\* a loop that goes on after a match: the last pattern that matches decides
ParseFromLastMatch(i, raw_message) ==
    LET hits == {j \in i..Len(PATTERNS) : Search(PATTERNS[j].pattern, raw_message) # 0}
    IN  IF hits = {} THEN Returns(Piece("None", 0, 0))
        ELSE LET j == CHOOSE h \in hits : \A g \in hits : g <= h
             IN  Parser(PATTERNS[j], raw_message[Search(PATTERNS[j].pattern, raw_message)])

\* lines 96-100: the loop over PATTERNS from the i-th on
RECURSIVE ParseFrom(_, _)
ParseFrom(i, raw_message) ==
    IF i > Len(PATTERNS) THEN Returns(Piece("None", 0, 0))
    ELSE LET m == Search(PATTERNS[i].pattern, raw_message)
         IN  IF m # 0 THEN Parser(PATTERNS[i], raw_message[m])
             ELSE ParseFrom(i + 1, raw_message)

\* lines 95-100
parse_message(date, type, raw_message) == ParseFrom(1, raw_message)

\* lines 58-68
parse_log_line(lines) ==
    LET raw_line == JoinLF(lines)
        raw_message == MessageOf(lines[1]) \o Concat(Tail(lines))
        parsed_message == parse_message(lines[1][1], ExampleType, raw_message)
    IN  IF ~LineMatches(lines[1]) THEN Raises(ValueError("Invalid log line"))
        ELSE IF ~StrptimeOk(lines[1][1])
        THEN Raises(ValueError(IF lines[1][1].b \in 1..12
                               THEN "day is out of range for month"
                               ELSE "time data does not match format"))
        ELSE IF parsed_message.kind = "raise" THEN parsed_message
        ELSE Returns([raw_line |-> raw_line, date |-> lines[1][1],
                      raw_message |-> raw_message,
                      parsed_message |-> parsed_message.value])

\* the lines of a file, as readlines() gives them: each ends with a line feed,
\* the last one possibly not.  Dates: 27.1.2025, and 31.2.2025, which LINE_RE
\* matches and strptime rejects.
LineStarts == {<<>>, <<Stamp(27, 1)>>, <<Stamp(31, 2)>>}
LineTexts == {<<Plain>>, <<Placing(1)>>, <<Placing(2)>>}
FullLines == {s \o t \o <<LF>> : s \in LineStarts, t \in LineTexts}
LastLines == FullLines \cup {s \o t : s \in LineStarts, t \in LineTexts}

\* lines 34-45: parse_log_file(file) up to the loop, for an empty file and for
\* the files of up to MaxLines lines
InitParser ==
    /\ \/ file = <<>>
       \/ \E n \in 1..MaxLines : \E f \in [1..(n - 1) -> FullLines], l \in LastLines :
             file = Append(f, l)
    /\ line_no = 1
    /\ buffer = <<>>
    /\ records = <<>>
    /\ gen = Generator("running", NoExc)
    /\ QueryUnused
    /\ LimiterUnused
    /\ ClientUnused
    /\ MessageUnused

\* lines 46-52: one pass of the loop
ForLine ==
    /\ gen.state = "running"
    /\ line_no <= Len(file)
    /\ LET line == file[line_no]
       IN  IF LineMatches(line) /\ buffer # <<>>
           THEN LET r == parse_log_line(buffer)
                IN  IF r.kind = "raise"
                    THEN /\ gen' = Generator("raised", r.exc)
                         /\ UNCHANGED <<line_no, buffer, records>>
                    ELSE /\ records' = Append(records, r.value)
                         /\ buffer' = <<line>>
                         /\ line_no' = line_no + 1
                         /\ UNCHANGED gen
           ELSE /\ buffer' = Append(buffer, line)
                /\ line_no' = line_no + 1
                /\ UNCHANGED <<records, gen>>
    /\ UNCHANGED <<file, sessionVars, other, limiterVars, clientVars, messageVars>>

\* lines 54-55: after the loop
AfterLoop ==
    /\ gen.state = "running"
    /\ line_no > Len(file)
    /\ IF buffer = <<>>
       THEN /\ gen' = Generator("exhausted", NoExc)
            /\ UNCHANGED records
       ELSE LET r == parse_log_line(buffer)
            IN  IF r.kind = "raise"
                THEN /\ gen' = Generator("raised", r.exc)
                     /\ UNCHANGED records
                ELSE /\ records' = Append(records, r.value)
                     /\ gen' = Generator("exhausted", NoExc)
    /\ UNCHANGED <<file, line_no, buffer, sessionVars, other, limiterVars, clientVars,
                   messageVars>>

NextParser ==
    \/ ForLine
    \/ AfterLoop

SpecParser == InitParser /\ [][NextParser]_vars

(***************************************************************************)
(* Properties of parse_log_file, under SpecParser.                         *)
(***************************************************************************)

\* the positions of the timestamped lines of the file, and the k-th of them
StampedLines == {i \in 1..Len(file) : LineMatches(file[i])}
NthStamped(k) ==
    CHOOSE i \in StampedLines : Cardinality({j \in StampedLines : j <= i}) = k

\* the k-th timestamped line and the lines up to the next timestamped one
GroupOf(k) ==
    LET from == NthStamped(k)
        to == IF k < Cardinality(StampedLines) THEN NthStamped(k + 1) - 1
              ELSE Len(file)
    IN  SubSeq(file, from, to)

GeneratorEnded == gen.state \in {"exhausted", "raised"}

\* C20: for a file whose first line matches the timestamp pattern, parse_log_file
\* yields exactly one record per timestamped line, in input order, each made of
\* that line and the lines up to the next timestamped one: every line is in
\* exactly one record, none lost, duplicated or reordered, the lines after the
\* last timestamped line included.
C20_OneRecordPerStampedLine ==
    (GeneratorEnded /\ file # <<>> /\ LineMatches(file[1])) =>
        /\ Len(records) = Cardinality(StampedLines)
        /\ \A k \in 1..Len(records) : records[k].raw_line = JoinLF(GroupOf(k))
        /\ Concat([k \in 1..Len(records) |-> Concat(GroupOf(k))]) = Concat(file)

(***************************************************************************)
(* parse_message on its own (vs/log_parser.py, lines 95-100): one call     *)
(* with a date, a type and a raw message of up to MaxPieces pieces, each a *)
(* plain text, a line feed or a text one of the registered patterns finds. *)
(***************************************************************************)
MaxPieces == 3

Phrases ==
    {Plain, LF, Joins, Placing(1), Placing(2), Left, CorpseCreated,
     CorpseDestroyed(1), CorpseDestroyed(2), Chat, Overloaded,
     ConsoleCommandText, ExceptionText}
MessageDates == {Stamp(1, 1), Stamp(31, 12)}
MessageTypes == {"Server Notification", "Server Chat"}

InitMessage ==
    /\ \E date \in MessageDates, type \in MessageTypes, n \in 0..MaxPieces :
          \E raw_message \in [1..n -> Phrases] :
             message = [date |-> date, type |-> type, raw_message |-> raw_message]
    /\ parsed = Pending
    /\ QueryUnused
    /\ LimiterUnused
    /\ ClientUnused
    /\ ParserUnused

\* the call and what comes back from it, a value or an exception
CallParseMessage ==
    /\ parsed = Pending
    /\ parsed' = parse_message(message.date, message.type, message.raw_message)
    /\ UNCHANGED <<message, sessionVars, other, limiterVars, clientVars, parserVars>>

NextMessage == CallParseMessage

SpecMessage == InitMessage /\ [][NextMessage]_vars

\* the patterns that match a message, by their place in PATTERNS
Matching(raw_message) ==
    {i \in 1..Len(PATTERNS) : Search(PATTERNS[i].pattern, raw_message) # 0}

\* C21: a call of parse_message ends with what the parser of the first pattern
\* of PATTERNS that matches the message gives (its dataclass, or the exception
\* it raises), and returns None when no pattern matches; no pattern registered
\* before the one that decided matches, and the same message with any other
\* date or type ends the same way.
C21_FirstRegisteredPatternWins ==
    parsed # Pending =>
        LET raw_message == message.raw_message
            matching == Matching(raw_message)
        IN  /\ matching = {} => parsed = Returns(Piece("None", 0, 0))
            /\ matching # {} =>
                  LET first == CHOOSE i \in matching : \A j \in matching : i <= j
                      m == Search(PATTERNS[first].pattern, raw_message)
                  IN  /\ parsed = Parser(PATTERNS[first], raw_message[m])
                      /\ parsed.kind = "return" =>
                            parsed.value.k = PATTERNS[first].parser
            /\ \A date \in MessageDates, type \in MessageTypes :
                  parse_message(date, type, raw_message) = parsed

\* a message with a chat text before a join text, answered with a PlayerJoin
C21_Witness ==
    /\ parsed # Pending
    /\ \E i, j \in 1..Len(message.raw_message) :
          /\ i < j
          /\ message.raw_message[i] = Chat
          /\ message.raw_message[j] = Joins
    /\ Cardinality(Matching(message.raw_message)) >= 2
    /\ parsed = Returns(Piece("PlayerJoin", 0, 0))

====
